---- MODULE Spec2Model ----
(***************************************************************************)
(* A model of shared/utils/cache_manager.py (class CacheManager): the      *)
(* response cache with its two backends (a Redis client, an in-process     *)
(* dict), the JSON conversion it applies to payloads and to the cache key, *)
(* and the environment it talks to (the Redis server, its clock).          *)
(***************************************************************************)
EXTENDS Integers, Sequences, FiniteSets, TLC

(***************************************************************************)
(* Bounds of the model.                                                    *)
(***************************************************************************)
\* payloads are the dicts {"x": n}, n in 1..MaxVal
MaxVal == 2
\* the configured cache_ttl (CACHE_TTL), in clock ticks
CacheTtl == 2
\* longest message list of a request whose cache key is generated
MaxMsgs == 2

Keys == {"k1", "k2"}

(***************************************************************************)
(* Python values.  A value is a record [t, v]: t is the Python type, v its *)
(* content.  Strings are sequences of characters, a dict is the sequence   *)
(* of its <<key, value>> items in insertion order (keys distinct).         *)
(***************************************************************************)
PyNone == [t |-> "none", v |-> <<>>]
PyObject == [t |-> "object", v |-> <<>>]
PyStr(s) == [t |-> "str", v |-> s]
PyInt(n) == [t |-> "int", v |-> <<n>>]
PyList(xs) == [t |-> "list", v |-> xs]
PyDict(items) == [t |-> "dict", v |-> items]

(***************************************************************************)
(* json.dumps.  The characters the model uses, in code point order.        *)
(***************************************************************************)
CodePoints ==
    << " ", "\"", ",", "0", "1", "2", "3", "4", "5", "6", "7", "8", "9", ":",
       "[", "\\", "]", "_", "a", "c", "d", "e", "g", "i", "k", "l", "m", "n", "o", "p",
       "r", "s", "t", "u", "x", "y", "{", "}" >>

Ord(c) == CHOOSE i \in 1..Len(CodePoints) : CodePoints[i] = c

\* Python's str comparison: lexicographic by code point
RECURSIVE StrLess(_, _)
StrLess(a, b) ==
    IF b = <<>> THEN FALSE
    ELSE IF a = <<>> THEN TRUE
    ELSE IF Head(a) = Head(b) THEN StrLess(Tail(a), Tail(b))
    ELSE Ord(Head(a)) < Ord(Head(b))

\* the escapes of a JSON string literal
EscapeChar(c) ==
    IF c = "\"" THEN << "\\", "\"" >>
    ELSE IF c = "\\" THEN << "\\", "\\" >>
    ELSE << c >>

RECURSIVE EscapeStr(_)
EscapeStr(s) ==
    IF s = <<>> THEN <<>> ELSE EscapeChar(Head(s)) \o EscapeStr(Tail(s))

EncodeStr(s) == << "\"" >> \o EscapeStr(s) \o << "\"" >>

Digit(d) == CodePoints[4 + d]

RECURSIVE EncodeInt(_)
EncodeInt(n) ==
    IF n < 10 THEN << Digit(n) >> ELSE EncodeInt(n \div 10) \o << Digit(n % 10) >>

\* sorted(items) by key, as sort_keys=True does: an insertion sort
RECURSIVE InsertItem(_, _)
InsertItem(it, sorted) ==
    IF sorted = <<>> THEN << it >>
    ELSE IF StrLess(it[1], Head(sorted)[1]) THEN << it >> \o sorted
    ELSE << Head(sorted) >> \o InsertItem(it, Tail(sorted))

RECURSIVE SortItems(_)
SortItems(items) ==
    IF items = <<>> THEN <<>> ELSE InsertItem(Head(items), SortItems(Tail(items)))

\* the items of a dict as json.dumps writes them without sort_keys
ItemOrderUnsorted(items, sort_keys) == items

\* the items of a dict in the order json.dumps writes them
ItemOrder(items, sort_keys) == IF sort_keys THEN SortItems(items) ELSE items

Ok(out) == [exc |-> FALSE, out |-> out]
Raise == [exc |-> TRUE, out |-> <<>>]

\* json.dumps(v, sort_keys=...): [exc, out]; exc is the TypeError of a value
\* that is not JSON serializable
RECURSIVE Dumps(_, _)
RECURSIVE DumpsList(_, _)
RECURSIVE DumpsItems(_, _)
Dumps(v, sort_keys) ==
    CASE v.t = "none" -> Ok(<< "n", "u", "l", "l" >>)
      [] v.t = "str" -> Ok(EncodeStr(v.v))
      [] v.t = "int" -> Ok(EncodeInt(v.v[1]))
      [] v.t = "list" ->
            LET r == DumpsList(v.v, sort_keys)
            IN  IF r.exc THEN Raise ELSE Ok(<< "[" >> \o r.out \o << "]" >>)
      [] v.t = "dict" ->
            LET r == DumpsItems(ItemOrder(v.v, sort_keys), sort_keys)
            IN  IF r.exc THEN Raise ELSE Ok(<< "{" >> \o r.out \o << "}" >>)
      [] OTHER -> Raise

DumpsList(xs, sort_keys) ==
    IF xs = <<>> THEN Ok(<<>>)
    ELSE LET h == Dumps(Head(xs), sort_keys)
             r == DumpsList(Tail(xs), sort_keys)
         IN  IF h.exc \/ r.exc THEN Raise
             ELSE IF Tail(xs) = <<>> THEN h
             ELSE Ok(h.out \o << ",", " " >> \o r.out)

DumpsItems(items, sort_keys) ==
    IF items = <<>> THEN Ok(<<>>)
    ELSE LET h == Dumps(Head(items)[2], sort_keys)
             r == DumpsItems(Tail(items), sort_keys)
             e == EncodeStr(Head(items)[1]) \o << ":", " " >>
         IN  IF h.exc \/ r.exc THEN Raise
             ELSE IF Tail(items) = <<>> THEN Ok(e \o h.out)
             ELSE Ok(e \o h.out \o << ",", " " >> \o r.out)

(***************************************************************************)
(* json.loads: a recursive descent over the characters.  A parse step      *)
(* returns [ok, val, rest]; ok = FALSE is the JSONDecodeError.             *)
(***************************************************************************)
ParseFail == [ok |-> FALSE, val |-> PyNone, rest |-> <<>>]
Parsed(v, rest) == [ok |-> TRUE, val |-> v, rest |-> rest]

IsDigit(c) == c \in {"0", "1", "2", "3", "4", "5", "6", "7", "8", "9"}
DigitVal(c) == Ord(c) - 4

RECURSIVE SkipWs(_)
SkipWs(s) == IF s # <<>> /\ Head(s) = " " THEN SkipWs(Tail(s)) ELSE s

HasPrefix(s, p) == Len(s) >= Len(p) /\ SubSeq(s, 1, Len(p)) = p
Drop(s, n) == SubSeq(s, n + 1, Len(s))

\* the digits of an int; acc is the value read so far
RECURSIVE ParseInt(_, _)
ParseInt(s, acc) ==
    IF s # <<>> /\ IsDigit(Head(s)) THEN ParseInt(Tail(s), 10 * acc + DigitVal(Head(s)))
    ELSE Parsed(PyInt(acc), s)

\* the characters of a string literal after its opening quote
RECURSIVE ParseChars(_, _)
ParseChars(s, acc) ==
    IF s = <<>> THEN ParseFail
    ELSE IF Head(s) = "\"" THEN Parsed(acc, Tail(s))
    ELSE IF Head(s) = "\\" THEN
        IF Len(s) >= 2 /\ s[2] \in {"\"", "\\"}
        THEN ParseChars(Drop(s, 2), Append(acc, s[2]))
        ELSE ParseFail
    ELSE ParseChars(Tail(s), Append(acc, Head(s)))

RECURSIVE ParseValue(_)
RECURSIVE ParseElems(_, _)
RECURSIVE ParseMembers(_, _)
ParseValue(s) ==
    IF s = <<>> THEN ParseFail
    ELSE IF HasPrefix(s, << "n", "u", "l", "l" >>) THEN Parsed(PyNone, Drop(s, 4))
    ELSE IF IsDigit(Head(s)) THEN ParseInt(s, 0)
    ELSE IF Head(s) = "\"" THEN
        LET r == ParseChars(Tail(s), <<>>)
        IN  IF r.ok THEN Parsed(PyStr(r.val), r.rest) ELSE ParseFail
    ELSE IF Head(s) = "[" THEN
        LET t == SkipWs(Tail(s))
        IN  IF t # <<>> /\ Head(t) = "]" THEN Parsed(PyList(<<>>), Tail(t))
            ELSE ParseElems(t, <<>>)
    ELSE IF Head(s) = "{" THEN
        LET t == SkipWs(Tail(s))
        IN  IF t # <<>> /\ Head(t) = "}" THEN Parsed(PyDict(<<>>), Tail(t))
            ELSE ParseMembers(t, <<>>)
    ELSE ParseFail

\* the elements of a list after "[" ; acc is the list read so far
ParseElems(s, acc) ==
    LET r == ParseValue(SkipWs(s))
        t == SkipWs(r.rest)
    IN  IF ~r.ok \/ t = <<>> THEN ParseFail
        ELSE IF Head(t) = "]" THEN Parsed(PyList(Append(acc, r.val)), Tail(t))
        ELSE IF Head(t) = "," THEN ParseElems(Tail(t), Append(acc, r.val))
        ELSE ParseFail

\* the members of an object after "{" ; acc is the items read so far
ParseMembers(s, acc) ==
    LET k == SkipWs(s)
        kr == IF k # <<>> /\ Head(k) = "\"" THEN ParseChars(Tail(k), <<>>) ELSE ParseFail
        c == SkipWs(kr.rest)
        r == IF kr.ok /\ c # <<>> /\ Head(c) = ":" THEN ParseValue(SkipWs(Tail(c)))
             ELSE ParseFail
        t == SkipWs(r.rest)
    IN  IF ~r.ok \/ t = <<>> THEN ParseFail
        ELSE IF Head(t) = "}" THEN Parsed(PyDict(Append(acc, << kr.val, r.val >>)), Tail(t))
        ELSE IF Head(t) = "," THEN ParseMembers(Tail(t), Append(acc, << kr.val, r.val >>))
        ELSE ParseFail

\* json.loads(s): [exc, val]
Loads(s) ==
    LET r == ParseValue(SkipWs(s))
    IN  IF r.ok /\ SkipWs(r.rest) = <<>> THEN [exc |-> FALSE, val |-> r.val]
        ELSE [exc |-> TRUE, val |-> PyNone]

(***************************************************************************)
(* The cache.  Each instance of CacheManager has the fields use_redis,     *)
(* cache_enabled, redis_client and memory_cache; the instances whose       *)
(* client points at the reachable server share its database redis_db.      *)
(* The per-instance variables are functions on the set of instances that   *)
(* were constructed; Spec constructs one, "A".                             *)
(***************************************************************************)
VARIABLES
    config,         \* per instance: the constructor argument and the environment
    use_redis,      \* per instance: self.use_redis
    cache_enabled,  \* per instance: self.cache_enabled
    redis_client,   \* per instance: where self.redis_client points, or "none"
    memory_cache,   \* per instance: self.memory_cache
    redis_db,       \* the database of the Redis server
    redis_up,       \* whether the Redis server answers
    last,           \* the last call and how it ended
    shadow,         \* per store and key: what last happened to the entry
    contacted,      \* per instance: it called redis.from_url or sent a command
    heap,           \* the dict objects a caller holds, and which of them the
                    \* entries of memory_cache refer to
    threads,        \* per thread of the process: where it is in its call
    redis_silent,   \* the server accepts commands and answers none
    sel,            \* an APIManager's api_keys and its last select_available_model
    fp              \* two requests and the cache keys generated for them

vars == << config, use_redis, cache_enabled, redis_client, memory_cache,
           redis_db, redis_up, last, shadow, contacted, heap, threads,
           redis_silent, sel, fp >>

\* os.getenv('REDIS_URL'): unset, not a Redis URL, a URL no server answers at,
\* the URL of the server
RedisUrls == {"unset", "malformed", "unreachable", "reachable"}

Configs == [use_redis : BOOLEAN, REDIS_URL : RedisUrls, ENABLE_CACHE : BOOLEAN]

PyTrue == [t |-> "bool", v |-> << TRUE >>]
PyFalse == [t |-> "bool", v |-> << FALSE >>]

\* the payloads callers store: parsed provider responses, and one dict that
\* holds an object json cannot serialize
JsonPayloads == { PyDict(<< << << "x" >>, PyInt(n) >> >>) : n \in 1..MaxVal }
Payloads == JsonPayloads \cup { PyDict(<< << << "x" >>, PyObject >> >>) }

NoEntry == [present |-> FALSE, val |-> PyNone]
EmptyDict == [k \in Keys |-> NoEntry]

NoRecord == [present |-> FALSE, data |-> <<>>, ttl |-> 0]
EmptyDb == [k \in Keys |-> NoRecord]

\* redis.from_url(url): builds a client and its connection pool from the URL
\* and connects to nothing; a URL it cannot parse is a ValueError
FromUrl(url) ==
    IF url = "malformed" THEN [exc |-> TRUE, client |-> "none"]
    ELSE [exc |-> FALSE, client |-> url]

\* __init__ taking the networked backend whenever REDIS_URL is set
ConstructIgnoringArgument(c) ==
    LET want == c.REDIS_URL # "unset"
        r == FromUrl(c.REDIS_URL)
    IN  [ use_redis |-> want /\ ~r.exc,
          cache_enabled |-> c.ENABLE_CACHE,
          redis_client |-> IF want /\ ~r.exc THEN r.client ELSE "none",
          memory_cache |-> EmptyDict,
          from_url_called |-> want ]

\* CacheManager.__init__
Construct(c) ==
    LET want == c.use_redis /\ c.REDIS_URL # "unset"
        r == FromUrl(c.REDIS_URL)
    IN  [ use_redis |-> want /\ ~r.exc,
          cache_enabled |-> c.ENABLE_CACHE,
          redis_client |-> IF want /\ ~r.exc THEN r.client ELSE "none",
          memory_cache |-> EmptyDict,
          from_url_called |-> want ]

\* a command sent through instance i's client raises (ConnectionError, TimeoutError)
RedisFails(i) == redis_client[i] # "reachable" \/ ~redis_up

\* redis_client.get(key): [exc, data]; data is <<>> for None
RedisGet(i, k) ==
    IF RedisFails(i) THEN [exc |-> TRUE, data |-> <<>>]
    ELSE [exc |-> FALSE, data |-> IF redis_db[k].present THEN redis_db[k].data ELSE <<>>]

\* redis_client.setex(key, ttl, data): [exc, db]
RedisSetex(i, k, ttl, data) ==
    IF RedisFails(i) \/ ttl <= 0 THEN [exc |-> TRUE, db |-> redis_db]
    ELSE [exc |-> FALSE,
          db |-> [redis_db EXCEPT ![k] = [present |-> TRUE, data |-> data, ttl |-> ttl]]]

\* redis_client.delete(key): [exc, db]
RedisDelete(i, k) ==
    IF RedisFails(i) THEN [exc |-> TRUE, db |-> redis_db]
    ELSE [exc |-> FALSE, db |-> [redis_db EXCEPT ![k] = NoRecord]]

\* redis_client.flushdb(): [exc, db]
RedisFlushdb(i) ==
    IF RedisFails(i) THEN [exc |-> TRUE, db |-> redis_db]
    ELSE [exc |-> FALSE, db |-> EmptyDb]

\* the truth value of what redis_client.get returned (None and b"" are false)
Truthy(data) == data # <<>>

(***************************************************************************)
(* The handlers.  Each returns how the call ended: result (what it         *)
(* returned), raised (an exception left the call), failed (an exception    *)
(* was raised inside it), touched (it read or wrote a backend), and the    *)
(* instance's memory_cache and the database after it.                      *)
(***************************************************************************)
Ended(result, raised, failed, touched, mem, db) ==
    [ result |-> result, raised |-> raised, failed |-> failed,
      touched |-> touched, mem |-> mem, db |-> db ]

\* get_from_cache's try block returning what the client read, undecoded
GetTryRaw(i, k) ==
    IF use_redis[i] THEN
        LET r == RedisGet(i, k)
        IN  IF r.exc THEN [exc |-> TRUE, returned |-> FALSE, val |-> PyNone]
            ELSE IF ~Truthy(r.data) THEN [exc |-> FALSE, returned |-> FALSE, val |-> PyNone]
            ELSE [exc |-> FALSE, returned |-> TRUE, val |-> [t |-> "bytes", v |-> r.data]]
    ELSE IF memory_cache[i][k].present
         THEN [exc |-> FALSE, returned |-> TRUE, val |-> memory_cache[i][k].val]
         ELSE [exc |-> FALSE, returned |-> FALSE, val |-> PyNone]

\* the try block of get_from_cache: [exc, returned, val]
GetTry(i, k) ==
    IF use_redis[i] THEN
        LET r == RedisGet(i, k)
            l == Loads(r.data)
        IN  IF r.exc THEN [exc |-> TRUE, returned |-> FALSE, val |-> PyNone]
            ELSE IF ~Truthy(r.data) THEN [exc |-> FALSE, returned |-> FALSE, val |-> PyNone]
            ELSE IF l.exc THEN [exc |-> TRUE, returned |-> FALSE, val |-> PyNone]
            ELSE [exc |-> FALSE, returned |-> TRUE, val |-> l.val]
    ELSE IF memory_cache[i][k].present
         THEN [exc |-> FALSE, returned |-> TRUE, val |-> memory_cache[i][k].val]
         ELSE [exc |-> FALSE, returned |-> FALSE, val |-> PyNone]

\* get_from_cache without its except clause: the exception leaves the call
GetFromCacheNoExcept(i, k) ==
    IF ~cache_enabled[i]
    THEN Ended(PyNone, FALSE, FALSE, FALSE, memory_cache[i], redis_db)
    ELSE LET b == GetTry(i, k)
         IN  Ended(IF b.returned THEN b.val ELSE PyNone, b.exc, b.exc, TRUE,
                   memory_cache[i], redis_db)

\* CacheManager.get_from_cache(cache_key)
GetFromCache(i, k) ==
    IF ~cache_enabled[i]
    THEN Ended(PyNone, FALSE, FALSE, FALSE, memory_cache[i], redis_db)
    ELSE LET b == GetTry(i, k)
         IN  Ended(IF b.returned THEN b.val ELSE PyNone, FALSE, b.exc, TRUE,
                   memory_cache[i], redis_db)

\* the try block of save_to_cache storing with SET, without an expiry
SaveTryNoExpiry(i, k, data) ==
    IF use_redis[i] THEN
        LET d == Dumps(data, FALSE)
        IN  IF d.exc \/ RedisFails(i)
            THEN [exc |-> TRUE, mem |-> memory_cache[i], db |-> redis_db]
            ELSE [exc |-> FALSE, mem |-> memory_cache[i],
                  db |-> [redis_db EXCEPT ![k] =
                            [present |-> TRUE, data |-> d.out, ttl |-> -1]]]
    ELSE [exc |-> FALSE,
          mem |-> [memory_cache[i] EXCEPT ![k] = [present |-> TRUE, val |-> data]],
          db |-> redis_db]

\* the try block of save_to_cache keeping an entry that is already there
\* (SET with NX, dict.setdefault): the first write wins
SaveTryIfAbsent(i, k, data) ==
    IF use_redis[i] THEN
        LET d == Dumps(data, FALSE)
            r == RedisSetex(i, k, CacheTtl, d.out)
        IN  IF d.exc \/ r.exc
            THEN [exc |-> TRUE, mem |-> memory_cache[i], db |-> redis_db]
            ELSE [exc |-> FALSE, mem |-> memory_cache[i],
                  db |-> IF redis_db[k].present THEN redis_db ELSE r.db]
    ELSE [exc |-> FALSE,
          mem |-> IF memory_cache[i][k].present THEN memory_cache[i]
                  ELSE [memory_cache[i] EXCEPT ![k] = [present |-> TRUE, val |-> data]],
          db |-> redis_db]

\* the try block of save_to_cache: [exc, mem, db]
SaveTry(i, k, data) ==
    IF use_redis[i] THEN
        LET d == Dumps(data, FALSE)
            r == RedisSetex(i, k, CacheTtl, d.out)
        IN  IF d.exc \/ r.exc
            THEN [exc |-> TRUE, mem |-> memory_cache[i], db |-> redis_db]
            ELSE [exc |-> FALSE, mem |-> memory_cache[i], db |-> r.db]
    ELSE [exc |-> FALSE,
          mem |-> [memory_cache[i] EXCEPT ![k] = [present |-> TRUE, val |-> data]],
          db |-> redis_db]

\* save_to_cache without its check of cache_enabled
SaveToCacheNoCheck(i, k, data) ==
    LET b == SaveTry(i, k, data)
    IN  Ended(IF b.exc THEN PyFalse ELSE PyTrue, FALSE, b.exc, TRUE, b.mem, b.db)

\* save_to_cache without its except clause: the exception leaves the call
SaveToCacheNoExcept(i, k, data) ==
    IF ~cache_enabled[i]
    THEN Ended(PyFalse, FALSE, FALSE, FALSE, memory_cache[i], redis_db)
    ELSE LET b == SaveTry(i, k, data)
         IN  Ended(IF b.exc THEN PyNone ELSE PyTrue, b.exc, b.exc, TRUE, b.mem, b.db)

\* CacheManager.save_to_cache(cache_key, data)
SaveToCache(i, k, data) ==
    IF ~cache_enabled[i]
    THEN Ended(PyFalse, FALSE, FALSE, FALSE, memory_cache[i], redis_db)
    ELSE LET b == SaveTry(i, k, data)
         IN  Ended(IF b.exc THEN PyFalse ELSE PyTrue, FALSE, b.exc, TRUE, b.mem, b.db)

\* del self.memory_cache[cache_key]: [exc, mem]; an absent key is a KeyError
DictDel(mem, k) ==
    IF mem[k].present THEN [exc |-> FALSE, mem |-> [mem EXCEPT ![k] = NoEntry]]
    ELSE [exc |-> TRUE, mem |-> mem]

\* invalidate_cache's try block with the key's branch deleting nothing
InvalidateTryNoDelete(i, k) ==
    IF k = "None" THEN
        IF use_redis[i] THEN
            LET r == RedisFlushdb(i)
            IN  [exc |-> r.exc, mem |-> memory_cache[i], db |-> r.db]
        ELSE [exc |-> FALSE, mem |-> EmptyDict, db |-> redis_db]
    ELSE [exc |-> use_redis[i] /\ RedisFails(i), mem |-> memory_cache[i], db |-> redis_db]

\* invalidate_cache's try block with the Local branch of the call without a
\* key comparing (self.memory_cache == {}) instead of assigning
InvalidateTryNoClear(i, k) ==
    IF k = "None" THEN
        IF use_redis[i] THEN
            LET r == RedisFlushdb(i)
            IN  [exc |-> r.exc, mem |-> memory_cache[i], db |-> r.db]
        ELSE [exc |-> FALSE, mem |-> memory_cache[i], db |-> redis_db]
    ELSE
        IF use_redis[i] THEN
            LET r == RedisDelete(i, k)
            IN  [exc |-> r.exc, mem |-> memory_cache[i], db |-> r.db]
        ELSE IF memory_cache[i][k].present THEN
            LET r == DictDel(memory_cache[i], k)
            IN  [exc |-> r.exc, mem |-> r.mem, db |-> redis_db]
        ELSE [exc |-> FALSE, mem |-> memory_cache[i], db |-> redis_db]

\* invalidate_cache's try block with the Local del not guarded by
\* "if cache_key in self.memory_cache"
InvalidateTryUnguardedDel(i, k) ==
    IF k = "None" THEN
        IF use_redis[i] THEN
            LET r == RedisFlushdb(i)
            IN  [exc |-> r.exc, mem |-> memory_cache[i], db |-> r.db]
        ELSE [exc |-> FALSE, mem |-> EmptyDict, db |-> redis_db]
    ELSE
        IF use_redis[i] THEN
            LET r == RedisDelete(i, k)
            IN  [exc |-> r.exc, mem |-> memory_cache[i], db |-> r.db]
        ELSE LET r == DictDel(memory_cache[i], k)
             IN  [exc |-> r.exc, mem |-> r.mem, db |-> redis_db]

\* invalidate_cache's try block clearing the store whatever the key
InvalidateTryClearsAll(i, k) ==
    IF use_redis[i] THEN
        LET r == RedisFlushdb(i)
        IN  [exc |-> r.exc, mem |-> memory_cache[i], db |-> r.db]
    ELSE [exc |-> FALSE, mem |-> EmptyDict, db |-> redis_db]

\* the try block of invalidate_cache; k = "None" is the call without a key
InvalidateTry(i, k) ==
    IF k = "None" THEN
        IF use_redis[i] THEN
            LET r == RedisFlushdb(i)
            IN  [exc |-> r.exc, mem |-> memory_cache[i], db |-> r.db]
        ELSE [exc |-> FALSE, mem |-> EmptyDict, db |-> redis_db]
    ELSE
        IF use_redis[i] THEN
            LET r == RedisDelete(i, k)
            IN  [exc |-> r.exc, mem |-> memory_cache[i], db |-> r.db]
        ELSE IF memory_cache[i][k].present THEN
            LET r == DictDel(memory_cache[i], k)
            IN  [exc |-> r.exc, mem |-> r.mem, db |-> redis_db]
        ELSE [exc |-> FALSE, mem |-> memory_cache[i], db |-> redis_db]

\* invalidate_cache without its check of cache_enabled
InvalidateCacheNoCheck(i, k) ==
    LET b == InvalidateTry(i, k)
    IN  Ended(IF b.exc THEN PyFalse ELSE PyTrue, FALSE, b.exc, TRUE, b.mem, b.db)

\* CacheManager.invalidate_cache(cache_key)
InvalidateCache(i, k) ==
    IF ~cache_enabled[i]
    THEN Ended(PyFalse, FALSE, FALSE, FALSE, memory_cache[i], redis_db)
    ELSE LET b == InvalidateTry(i, k)
         IN  Ended(IF b.exc THEN PyFalse ELSE PyTrue, FALSE, b.exc, TRUE, b.mem, b.db)

\* redis_client.info(): [exc, keys]; keys is db0's count of keys
RedisInfo(i) ==
    IF RedisFails(i) THEN [exc |-> TRUE, keys |-> 0]
    ELSE [exc |-> FALSE, keys |-> Cardinality({k \in Keys : redis_db[k].present})]

\* the keys of the dict get_cache_stats builds before its try block, and
\* those stats.update adds on either backend
BaseStats == {"cache_enabled", "cache_type", "cache_ttl"}
RedisStats == {"used_memory", "total_keys", "redis_version"}
MemoryStats == {"total_keys"}

\* the dict get_cache_stats returns: its keys, and the values of four of them
PyStats(i, keys, total_keys) ==
    [t |-> "stats",
     v |-> << [ keys |-> keys,
                cache_enabled |-> cache_enabled[i],
                cache_type |-> IF use_redis[i] THEN "redis" ELSE "memory",
                cache_ttl |-> CacheTtl,
                total_keys |-> total_keys ] >>]

\* the try block of get_cache_stats: [exc, keys, total_keys]
StatsTry(i) ==
    IF use_redis[i] THEN
        LET r == RedisInfo(i)
        IN  IF r.exc THEN [exc |-> TRUE, keys |-> BaseStats, total_keys |-> 0]
            ELSE [exc |-> FALSE, keys |-> BaseStats \cup RedisStats, total_keys |-> r.keys]
    ELSE [exc |-> FALSE, keys |-> BaseStats \cup MemoryStats,
          total_keys |-> Cardinality({k \in Keys : memory_cache[i][k].present})]

\* get_cache_stats without its except clause: the exception leaves the call
GetCacheStatsNoExcept(i) ==
    LET b == StatsTry(i)
    IN  Ended(IF b.exc THEN PyNone ELSE PyStats(i, b.keys, b.total_keys), b.exc, b.exc,
              TRUE, memory_cache[i], redis_db)

\* CacheManager.get_cache_stats()
GetCacheStats(i) ==
    LET b == StatsTry(i)
    IN  Ended(PyStats(i, b.keys, b.total_keys), FALSE, b.exc, TRUE,
              memory_cache[i], redis_db)

(***************************************************************************)
(* generate_cache_key.  A request is [model, messages, params]: model a    *)
(* string, messages a sequence of [role, content], params the items of a   *)
(* dict in insertion order.                                                *)
(***************************************************************************)
Models == { << "g" >>, << "c" >> }
Roles == { << "u", "s", "e", "r" >>, << "a", "s", "s", "i", "s", "t", "a", "n", "t" >> }
Contents == { <<>>, << "a" >>, << "\"" >> }
ParamKeys == { << "t", "e", "m", "p", "e", "r", "a", "t", "u", "r", "e" >>,
               << "m", "a", "x", "_", "t", "o", "k", "e", "n", "s" >> }
ParamValues == { PyInt(1), PyInt(10), PyNone }

Messages == [role : Roles, content : Contents]
MessageLists == UNION { [1..n -> Messages] : n \in 0..MaxMsgs }

\* the dicts over ParamKeys, each in every insertion order
ParamDicts ==
    UNION { { d \in [1..n -> ParamKeys \X ParamValues] :
                \A x, y \in 1..n : x # y => d[x][1] # d[y][1] } :
            n \in 0..Cardinality(ParamKeys) }

Requests == [model : Models, messages : MessageLists, params : ParamDicts]

\* {"role": ..., "content": ...}
MessageDict(m) ==
    PyDict(<< << << "r", "o", "l", "e" >>, PyStr(m.role) >>,
              << << "c", "o", "n", "t", "e", "n", "t" >>, PyStr(m.content) >> >>)

\* cache_dict, the messages sorted by content
CacheDictSortedMessages(model, messages, params) ==
    LET byContent == SortItems([j \in 1..Len(messages) |->
                                  << messages[j].content, MessageDict(messages[j]) >>])
    IN  PyDict(<< << << "m", "o", "d", "e", "l" >>, PyStr(model) >>,
                  << << "m", "e", "s", "s", "a", "g", "e", "s" >>,
                     PyList([j \in 1..Len(messages) |-> byContent[j][2]]) >>,
                  << << "p", "a", "r", "a", "m", "s" >>, PyDict(params) >> >>)

\* cache_dict
CacheDict(model, messages, params) ==
    PyDict(<< << << "m", "o", "d", "e", "l" >>, PyStr(model) >>,
              << << "m", "e", "s", "s", "a", "g", "e", "s" >>,
                 PyList([j \in 1..Len(messages) |-> MessageDict(messages[j])]) >>,
              << << "p", "a", "r", "a", "m", "s" >>, PyDict(params) >> >>)

\* cache_str
CacheStr(model, messages, params) == Dumps(CacheDict(model, messages, params), TRUE).out

\* hashlib.md5(b).hexdigest(), as a function of b that maps different texts to
\* different digests: MD5 itself is not computed
Md5HexDigest(b) == [md5 |-> b]

\* CacheManager.generate_cache_key(model, messages, params)
GenerateCacheKey(model, messages, params) == Md5HexDigest(CacheStr(model, messages, params))

KeyOf(r) == GenerateCacheKey(r.model, r.messages, r.params)

NoRequest == [model |-> <<>>, messages |-> <<>>, params |-> <<>>]
FpIdle == [a |-> NoRequest, b |-> NoRequest, key_a |-> Md5HexDigest(<<>>),
           key_b |-> Md5HexDigest(<<>>), done |-> FALSE]

(***************************************************************************)
(* The state machine: one action per call, and the server's own steps.     *)
(***************************************************************************)
\* the instances that were constructed
Inst == DOMAIN config

\* the store an instance reads and writes
StoreOf(i) == IF use_redis[i] THEN redis_client[i] ELSE i
Stores == Inst \cup {"reachable", "unreachable"}

\* some instance holds a client of the server
ServerUsed == \E i \in Inst : redis_client[i] = "reachable"

\* instance i's store holds an entry under k
Present(i, k) ==
    IF use_redis[i] THEN redis_client[i] = "reachable" /\ redis_db[k].present
    ELSE memory_cache[i][k].present

\* instance i's backend answers
Healthy(i) == use_redis[i] => ~RedisFails(i)

\* a mark of shadow: "never" (no call changed the entry yet), "set" with the
\* payload of the last completed set, "invalidated" or "flushed" with whether
\* the call found an entry to remove, "expired", "corrupt"; by is the instance
\* whose set stored the entry (for "flushed": the entry the call removed)
Mark(tag, val) == [tag |-> tag, val |-> val, age |-> 0, by |-> "none"]
PyBool(b) == IF b THEN PyTrue ELSE PyFalse

Call(op, i, k, arg, o) ==
    [ op |-> op, inst |-> i, key |-> k, arg |-> arg, result |-> o.result,
      raised |-> o.raised, failed |-> o.failed, touched |-> o.touched,
      seen |-> [kk \in Keys |-> GetFromCache(i, kk).result], fresh |-> TRUE ]

\* last once something other than a call happened: seen is what a get of
\* each key would have returned just before the call, and fresh says that
\* nothing but the call happened since
Stale == [last EXCEPT !.fresh = FALSE]

\* the threads of the process that call the instance
Threads == {"t1", "t2"}

\* a thread that has made no call: pc is the line it is about to run
\* ("idle": none), op, key and arg its call, result and failed how its last
\* call ended, calls how many it has begun, overlap whether another
\* thread's call was running while its last call was
NoCall ==
    [ pc |-> "idle", op |-> "none", key |-> "None", arg |-> PyNone,
      result |-> PyNone, failed |-> FALSE, calls |-> 0, overlap |-> FALSE ]

\* The payload dicts a caller holds are objects 1, 2, ...: one for every key
\* and one more.  Object 0 stands for a dict no caller holds a reference to.
ObjIds == 1 .. (Cardinality(Keys) + 1)

\* heap.val[x] is the content of object x, heap.ref[i][k] the object that
\* self.memory_cache[k] of instance i refers to, heap.v the object the
\* caller's variable is bound to
NoObjects ==
    [ val |-> [x \in ObjIds |-> PyNone],
      ref |-> [i \in Inst |-> [k \in Keys |-> 0]],
      v |-> 0 ]

\* the references held by i's dict after a call op(k) that ended as o and
\* was given object obj: the assignment at line 113 stores the reference
RefsAfter(op, i, k, o, obj) ==
    [kk \in Keys |->
        IF use_redis[i] THEN heap.ref[i][kk]
        ELSE IF op = "set" /\ kk = k /\ o.result = PyTrue THEN obj
        ELSE IF ~o.mem[kk].present THEN 0
        ELSE heap.ref[i][kk]]

\* the providers an APIManager holds keys for
Providers == {"openai", "anthropic", "gemini", "deepseek", "ollama"}

\* no APIManager was constructed: api_keys is what __init__ read from the
\* environment, per provider, preferred the argument of the last
\* select_available_model, result what it returned
NoManager ==
    [ made |-> FALSE, api_keys |-> [p \in Providers |-> "unset"],
      called |-> FALSE, preferred |-> <<>>,
      result |-> [exc |-> FALSE, model |-> <<>>] ]

\* the instances of cfgs were constructed and nothing was called yet
Constructed(cfgs) ==
    /\ config \in cfgs
    /\ use_redis = [i \in Inst |-> Construct(config[i]).use_redis]
    /\ cache_enabled = [i \in Inst |-> Construct(config[i]).cache_enabled]
    /\ redis_client = [i \in Inst |-> Construct(config[i]).redis_client]
    /\ memory_cache = [i \in Inst |-> Construct(config[i]).memory_cache]
    /\ contacted = [i \in Inst |-> Construct(config[i]).from_url_called]
    /\ redis_db = EmptyDb
    /\ last = [ op |-> "init", inst |-> "A", key |-> "None", arg |-> PyNone,
                result |-> PyNone, raised |-> FALSE, failed |-> FALSE,
                touched |-> FALSE, seen |-> [kk \in Keys |-> PyNone],
                fresh |-> FALSE ]
    /\ shadow = [s \in Stores |-> [k \in Keys |-> Mark("never", PyNone)]]
    /\ heap = NoObjects
    /\ threads = [t \in Threads |-> NoCall]
    /\ redis_silent = FALSE
    /\ sel = NoManager

Init ==
    /\ Constructed([{"A"} -> Configs])
    /\ redis_up \in BOOLEAN
    /\ (redis_up = FALSE => ServerUsed)
    /\ fp = FpIdle

\* a handler that falls back to the Local backend when a command fails
BackendAfterFallback(i, o) == use_redis[i] /\ ~o.failed

\* self.use_redis after a call that ended as o: no handler assigns it
BackendAfter(i, o) == use_redis[i]

\* one dict shared by every instance, as a class attribute would be
MemoryAfterShared(i, o) == [j \in Inst |-> o.mem]

\* the dicts after a call on instance i that ended as o: self.memory_cache
\* is created per instance by __init__, so only i's dict changes
MemoryAfter(i, o) == [memory_cache EXCEPT ![i] = o.mem]

\* what a call that ended as o leaves behind, the marks of shadow and the
\* caller's objects apart
Outcome(op, i, k, arg, o) ==
    /\ memory_cache' = MemoryAfter(i, o)
    /\ redis_db' = o.db
    /\ last' = Call(op, i, k, arg, o)
    /\ use_redis' = [use_redis EXCEPT ![i] = BackendAfter(i, o)]
    /\ contacted' = [contacted EXCEPT ![i] = @ \/ (use_redis[i] /\ o.touched)]
    /\ UNCHANGED << fp, sel, threads, redis_silent, config, cache_enabled, redis_client,
                    redis_up >>

\* the same for a call whose payload and result no caller keeps hold of
Effect(op, i, k, arg, o) ==
    /\ Outcome(op, i, k, arg, o)
    /\ heap' = [heap EXCEPT !.ref[i] = RefsAfter(op, i, k, o, 0)]

\* a caller calls get_from_cache(k) on instance i
Get(i, k) ==
    LET o == GetFromCache(i, k)
    IN  /\ Effect("get", i, k, PyNone, o)
        /\ UNCHANGED shadow

\* a caller calls get_cache_stats() on instance i
Stats(i) ==
    LET o == GetCacheStats(i)
    IN  /\ Effect("stats", i, "None", PyNone, o)
        /\ UNCHANGED shadow

\* a caller calls save_to_cache(k, data) on instance i
Set(i, k, data) ==
    LET o == SaveToCache(i, k, data)
    IN  /\ Effect("set", i, k, data, o)
        /\ shadow' = IF o.result = PyTrue
                     THEN [shadow EXCEPT ![StoreOf(i)][k] =
                             [Mark("set", data) EXCEPT !.by = i]]
                     ELSE shadow

\* a caller calls invalidate_cache(k) on instance i
Invalidate(i, k) ==
    LET o == InvalidateCache(i, k)
    IN  /\ Effect("invalidate", i, k, PyNone, o)
        /\ shadow' = IF o.result = PyTrue
                     THEN [shadow EXCEPT ![StoreOf(i)][k] =
                             Mark("invalidated", PyBool(Present(i, k)))]
                     ELSE shadow

\* a caller calls invalidate_cache() on instance i
InvalidateAll(i) ==
    LET o == InvalidateCache(i, "None")
    IN  /\ Effect("invalidate", i, "None", PyNone, o)
        /\ shadow' = IF o.result = PyTrue
                     THEN [shadow EXCEPT ![StoreOf(i)] =
                             [k \in Keys |->
                                IF @[k].tag = "never" THEN @[k]
                                ELSE [Mark("flushed", PyBool(Present(i, k)))
                                        EXCEPT !.by = IF Present(i, k) THEN shadow[StoreOf(i)][k].by
                                                      ELSE "none"]]]
                     ELSE shadow

\* the longest time the model lets pass after a set: one second past the TTL
MaxAge == CacheTtl + 1

\* a dict whose entries leave it once they are CacheTtl seconds old
LocalAfterTickEvicting(i) ==
    [k \in Keys |-> IF shadow[i][k].tag = "set" /\ shadow[i][k].age + 1 >= CacheTtl
                    THEN NoEntry ELSE memory_cache[i][k]]

\* self.memory_cache of instance i after a second passed: the dict keeps no
\* time of storage and no code evicts from it
LocalAfterTick(i) == memory_cache[i]

\* a second passes: the server counts down the expiry of its records and
\* drops the ones that reach it; every completed set is a second older
Tick ==
    /\ \/ \E k \in Keys : redis_db[k].present /\ redis_db[k].ttl > 0
       \/ \E s \in Stores, k \in Keys :
             shadow[s][k].tag = "set" /\ shadow[s][k].age < MaxAge
    /\ redis_db' = [k \in Keys |->
                      IF redis_db[k].present /\ redis_db[k].ttl > 0
                      THEN IF redis_db[k].ttl = 1 THEN NoRecord
                           ELSE [redis_db[k] EXCEPT !.ttl = @ - 1]
                      ELSE redis_db[k]]
    /\ memory_cache' = [i \in Inst |-> LocalAfterTick(i)]
    /\ shadow' = [s \in Stores |-> [k \in Keys |->
                    IF s = "reachable" /\ redis_db[k].present /\ redis_db[k].ttl = 1
                    THEN Mark("expired", PyNone)
                    ELSE IF shadow[s][k].tag = "set" /\ shadow[s][k].age < MaxAge
                    THEN [shadow[s][k] EXCEPT !.age = @ + 1]
                    ELSE shadow[s][k]]]
    /\ UNCHANGED << fp, sel, threads, redis_silent, heap, contacted, config, use_redis, cache_enabled, redis_client,
                    redis_up >>
    /\ last' = Stale

\* what a record of the database holds when it is not a payload's JSON text:
\* nothing, or a text cut short
Undecodable == { <<>>, << "{" >> }

\* another client of the server, or a fault, leaves such a record under k
Corrupt(k, data) ==
    /\ ServerUsed
    /\ redis_up
    /\ redis_db' = [redis_db EXCEPT ![k] = [present |-> TRUE, data |-> data, ttl |-> -1]]
    /\ shadow' = [shadow EXCEPT !["reachable"][k] = Mark("corrupt", PyNone)]
    /\ UNCHANGED << fp, sel, threads, redis_silent, heap, contacted, config, use_redis, cache_enabled, redis_client, memory_cache,
                    redis_up >>
    /\ last' = Stale

\* the server stops answering
ServerDown ==
    /\ ServerUsed
    /\ redis_up
    /\ redis_up' = FALSE
    /\ UNCHANGED << fp, sel, threads, redis_silent, heap, contacted, config, use_redis, cache_enabled, redis_client, memory_cache,
                    redis_db, shadow >>
    /\ last' = Stale

\* the server answers again
ServerUp ==
    /\ ~redis_up
    /\ redis_up' = TRUE
    /\ UNCHANGED << fp, sel, threads, redis_silent, heap, contacted, config, use_redis, cache_enabled, redis_client, memory_cache,
                    redis_db, shadow >>
    /\ last' = Stale

Next ==
    \/ \E i \in Inst, k \in Keys : Get(i, k)
    \/ \E i \in Inst, k \in Keys, data \in Payloads : Set(i, k, data)
    \/ \E i \in Inst, k \in Keys : Invalidate(i, k)
    \/ \E i \in Inst : InvalidateAll(i)
    \/ \E i \in Inst : Stats(i)
    \/ Tick
    \/ \E k \in Keys, data \in Undecodable : Corrupt(k, data)
    \/ ServerDown
    \/ ServerUp

Spec == Init /\ [][Next]_vars

(***************************************************************************)
(* Two instances in one process, A and B, each on the Local backend or on  *)
(* the one Redis server, with caching enabled and the server up.           *)
(***************************************************************************)
TwoConfigs ==
    { [use_redis |-> TRUE, REDIS_URL |-> "reachable", ENABLE_CACHE |-> TRUE],
      [use_redis |-> FALSE, REDIS_URL |-> "unset", ENABLE_CACHE |-> TRUE] }

InitTwo ==
    /\ Constructed([{"A", "B"} -> TwoConfigs])
    /\ redis_up = TRUE
    /\ fp = FpIdle

NextTwo ==
    \/ \E i \in Inst, k \in Keys : Get(i, k)
    \/ \E i \in Inst, k \in Keys, data \in JsonPayloads : Set(i, k, data)
    \/ \E i \in Inst, k \in Keys : Invalidate(i, k)
    \/ \E i \in Inst : InvalidateAll(i)

SpecTwo == InitTwo /\ [][NextTwo]_vars

(***************************************************************************)
(* The same two instances, A constructed with ENABLE_CACHE off and B with  *)
(* it on.                                                                  *)
(***************************************************************************)
DisabledConfigs == {[c EXCEPT !.ENABLE_CACHE = FALSE] : c \in TwoConfigs}

InitDisabled ==
    /\ Constructed({c \in [{"A", "B"} -> TwoConfigs \cup DisabledConfigs] :
                       c["A"] \in DisabledConfigs /\ c["B"] \in TwoConfigs})
    /\ redis_up = TRUE
    /\ fp = FpIdle

SpecDisabled == InitDisabled /\ [][NextTwo]_vars

(***************************************************************************)
(* A caller that keeps hold of the dict it passed to save_to_cache, or of  *)
(* the one get_from_cache returned, and changes it afterwards.             *)
(***************************************************************************)
AliasConfigs ==
    { [use_redis |-> TRUE, REDIS_URL |-> "reachable", ENABLE_CACHE |-> TRUE],
      [use_redis |-> FALSE, REDIS_URL |-> "unset", ENABLE_CACHE |-> TRUE] }

InitAlias ==
    /\ Constructed([{"A"} -> AliasConfigs])
    /\ redis_up = TRUE
    /\ fp = FpIdle

\* an object no entry of a dict refers to: the lowest such
FreeObjs == ObjIds \ {heap.ref[i][k] : i \in Inst, k \in Keys}
Fresh == CHOOSE x \in FreeObjs : \A y \in FreeObjs : x <= y

\* v = {"x": n}: the caller binds its variable to a new dict
NewPayload(data) ==
    /\ FreeObjs # {}
    /\ heap' = [heap EXCEPT !.v = Fresh, !.val[Fresh] = data]
    /\ UNCHANGED << fp, sel, threads, redis_silent, contacted, config, use_redis, cache_enabled, redis_client,
                    memory_cache, redis_db, redis_up, last, shadow >>

\* save_to_cache(k, v): Redis is sent the text of v, the dict is given v itself
SetHeld(i, k) ==
    /\ heap.v # 0
    /\ LET data == heap.val[heap.v]
           o == SaveToCache(i, k, data)
       IN  /\ Outcome("set", i, k, data, o)
           /\ shadow' = IF o.result = PyTrue
                        THEN [shadow EXCEPT ![StoreOf(i)][k] =
                                [Mark("set", data) EXCEPT !.by = i]]
                        ELSE shadow
           /\ heap' = [heap EXCEPT !.ref[i] = RefsAfter("set", i, k, o, heap.v)]

\* v = get_from_cache(k): json.loads makes a new dict of the text Redis
\* holds, the Local backend returns the dict it holds
GetHeld(i, k) ==
    LET o == GetFromCache(i, k)
    IN  /\ Outcome("get", i, k, PyNone, o)
        /\ UNCHANGED shadow
        /\ heap' = IF o.result = PyNone THEN heap
                   ELSE IF use_redis[i]
                   THEN [heap EXCEPT !.v = Fresh, !.val[Fresh] = o.result]
                   ELSE IF heap.ref[i][k] = 0
                   THEN [heap EXCEPT !.v = Fresh, !.val[Fresh] = o.result,
                                     !.ref[i][k] = Fresh]
                   ELSE [heap EXCEPT !.v = heap.ref[i][k]]

\* v["x"] = n: every reference to the object sees the new content
MutateHeld(data) ==
    /\ heap.v # 0
    /\ heap.val[heap.v] # data
    /\ heap' = [heap EXCEPT !.val[heap.v] = data]
    /\ memory_cache' = [i \in Inst |-> [k \in Keys |->
                          IF memory_cache[i][k].present /\ heap.ref[i][k] = heap.v
                          THEN [present |-> TRUE, val |-> data]
                          ELSE memory_cache[i][k]]]
    /\ UNCHANGED << fp, sel, threads, redis_silent, contacted, config, use_redis, cache_enabled, redis_client,
                    redis_db, redis_up, shadow >>
    /\ last' = Stale

NextAlias ==
    \/ \E data \in JsonPayloads : NewPayload(data)
    \/ \E i \in Inst, k \in Keys : SetHeld(i, k)
    \/ \E i \in Inst, k \in Keys : GetHeld(i, k)
    \/ \E data \in JsonPayloads : MutateHeld(data)
    \/ \E i \in Inst, k \in Keys : Invalidate(i, k)
    \/ \E i \in Inst : InvalidateAll(i)

SpecAlias == InitAlias /\ [][NextAlias]_vars

(***************************************************************************)
(* Threads.  The threads of Threads call one instance, Cm, without a lock. *)
(* A step is what a thread does without another thread in between: one    *)
(* line of the Local branch (an operation on the dict is one step of the   *)
(* interpreter), or the sending of a command to the Redis server, which    *)
(* the server applies and answers in a step of its own.  The client was    *)
(* built by redis.from_url(url) with no socket_timeout, so a thread that   *)
(* sent a command waits until the answer comes.                            *)
(***************************************************************************)
Cm == "A"

\* how many calls a thread makes
MaxCalls == 2

ThreadConfigs == AliasConfigs

InitThreads ==
    /\ Constructed([{Cm} -> ThreadConfigs])
    /\ redis_up = TRUE
    /\ fp = FpIdle

\* another thread is inside a call
Busy(t) == \E u \in Threads \ {t} : threads[u].pc # "idle"

\* thread t is outside a call and may begin one
MayCall(t) ==
    /\ threads[t].pc = "idle"
    /\ threads[t].calls < MaxCalls
    /\ cache_enabled[Cm]

\* threads after t began the call op(k, arg) and ran its first step, which
\* left it at pc (at "idle": the call returned result)
Entered(t, op, k, arg, pc, result, failed) ==
    [u \in Threads |->
        IF u = t
        THEN [ pc |-> pc, op |-> op, key |-> k, arg |-> arg, result |-> result,
               failed |-> failed, calls |-> threads[t].calls + 1,
               overlap |-> Busy(t) ]
        ELSE IF threads[u].pc # "idle" THEN [threads[u] EXCEPT !.overlap = TRUE]
        ELSE threads[u]]

\* threads after t's call returned result
Left(t, result, failed) ==
    [threads EXCEPT ![t].pc = "idle", ![t].result = result, ![t].failed = failed]

\* what no step of a thread changes
ThreadFrame ==
    UNCHANGED << fp, sel, heap, contacted, config, use_redis, cache_enabled,
                 redis_client, redis_up, last >>

\* the marks after thread t's write of kind tag to Cm's store; found says,
\* per key, whether the write removed an entry
Marked(t, tag, k, data, found) ==
    IF tag = "set"
    THEN [shadow EXCEPT ![StoreOf(Cm)][k] = [Mark("set", data) EXCEPT !.by = t]]
    ELSE IF tag = "invalidated"
    THEN [shadow EXCEPT ![StoreOf(Cm)][k] = Mark("invalidated", PyBool(found[k]))]
    ELSE [shadow EXCEPT ![StoreOf(Cm)] =
            [kk \in Keys |-> IF @[kk].tag = "never" THEN @[kk]
                             ELSE Mark("flushed", PyBool(found[kk]))]]

Found == [k \in Keys |-> Present(Cm, k)]

\* get_from_cache, Local, line 84: if cache_key in self.memory_cache
LGetCheck(t, k) ==
    /\ MayCall(t)
    /\ ~use_redis[Cm]
    /\ threads' = IF memory_cache[Cm][k].present
                  THEN Entered(t, "get", k, PyNone, "read", PyNone, FALSE)
                  ELSE Entered(t, "get", k, PyNone, "idle", PyNone, FALSE)
    /\ UNCHANGED << memory_cache, redis_db, shadow, redis_silent >>
    /\ ThreadFrame

\* line 85: return self.memory_cache[cache_key]; a KeyError goes to the
\* except clause and the call returns None
LGetRead(t) ==
    /\ threads[t].pc = "read"
    /\ LET e == memory_cache[Cm][threads[t].key]
       IN  threads' = IF e.present THEN Left(t, e.val, FALSE)
                      ELSE Left(t, PyNone, TRUE)
    /\ UNCHANGED << memory_cache, redis_db, shadow, redis_silent >>
    /\ ThreadFrame

\* save_to_cache, Local, line 113: self.memory_cache[cache_key] = data
LSet(t, k, data) ==
    /\ MayCall(t)
    /\ ~use_redis[Cm]
    /\ LET b == SaveTry(Cm, k, data)
       IN  /\ memory_cache' = [memory_cache EXCEPT ![Cm] = b.mem]
           /\ threads' = Entered(t, "set", k, data, "idle",
                                 IF b.exc THEN PyFalse ELSE PyTrue, b.exc)
           /\ shadow' = IF b.exc THEN shadow ELSE Marked(t, "set", k, data, Found)
    /\ UNCHANGED << redis_db, redis_silent >>
    /\ ThreadFrame

\* invalidate_cache(k), Local, line 144: if cache_key in self.memory_cache
LInvCheck(t, k) ==
    /\ MayCall(t)
    /\ ~use_redis[Cm]
    /\ IF memory_cache[Cm][k].present
       THEN /\ threads' = Entered(t, "invalidate", k, PyNone, "del", PyNone, FALSE)
            /\ UNCHANGED shadow
       ELSE /\ threads' = Entered(t, "invalidate", k, PyNone, "idle", PyTrue, FALSE)
            /\ shadow' = Marked(t, "invalidated", k, PyNone, Found)
    /\ UNCHANGED << memory_cache, redis_db, redis_silent >>
    /\ ThreadFrame

\* line 145: del self.memory_cache[cache_key]; a KeyError goes to the except
\* clause and the call returns False
LInvDel(t) ==
    /\ threads[t].pc = "del"
    /\ LET r == DictDel(memory_cache[Cm], threads[t].key)
       IN  /\ memory_cache' = [memory_cache EXCEPT ![Cm] = r.mem]
           /\ threads' = Left(t, IF r.exc THEN PyFalse ELSE PyTrue, r.exc)
           /\ shadow' = IF r.exc THEN shadow
                        ELSE Marked(t, "invalidated", threads[t].key, PyNone, Found)
    /\ UNCHANGED << redis_db, redis_silent >>
    /\ ThreadFrame

\* invalidate_cache(), Local, line 138: self.memory_cache = {}
LInvAll(t) ==
    /\ MayCall(t)
    /\ ~use_redis[Cm]
    /\ memory_cache' = [memory_cache EXCEPT ![Cm] = InvalidateTry(Cm, "None").mem]
    /\ threads' = Entered(t, "invalidate", "None", PyNone, "idle", PyTrue, FALSE)
    /\ shadow' = Marked(t, "flushed", "None", PyNone, Found)
    /\ UNCHANGED << redis_db, redis_silent >>
    /\ ThreadFrame

\* the Redis branch of a handler sends its command: a client that cannot
\* connect raises at once, otherwise the thread waits for the answer
RSend(t, op, k, arg) ==
    /\ MayCall(t)
    /\ use_redis[Cm]
    /\ threads' = IF RedisFails(Cm)
                  THEN Entered(t, op, k, arg, "idle",
                               IF op = "get" THEN PyNone ELSE PyFalse, TRUE)
                  ELSE Entered(t, op, k, arg, "wait", PyNone, FALSE)
    /\ UNCHANGED << memory_cache, redis_db, shadow, redis_silent >>
    /\ ThreadFrame

\* how the call of a waiting thread ends once the server takes its command
Served(t) ==
    IF threads[t].op = "get" THEN GetFromCache(Cm, threads[t].key)
    ELSE IF threads[t].op = "set" THEN SaveToCache(Cm, threads[t].key, threads[t].arg)
    ELSE InvalidateCache(Cm, threads[t].key)

\* the server applies the command of thread t and answers; the handler
\* returns
Serve(t) ==
    /\ threads[t].pc = "wait"
    /\ ~redis_silent
    /\ LET o == Served(t)
           tag == IF threads[t].op = "get" \/ o.result # PyTrue THEN "none"
                  ELSE IF threads[t].op = "set" THEN "set"
                  ELSE IF threads[t].key = "None" THEN "flushed"
                  ELSE "invalidated"
       IN  /\ redis_db' = o.db
           /\ threads' = Left(t, o.result, o.failed)
           /\ shadow' = IF tag = "none" THEN shadow
                        ELSE Marked(t, tag, threads[t].key, threads[t].arg, Found)
    /\ UNCHANGED << memory_cache, redis_silent >>
    /\ ThreadFrame

\* the server keeps taking connections and commands and answers none
ServerSilent ==
    /\ use_redis[Cm]
    /\ ~redis_silent
    /\ redis_silent' = TRUE
    /\ UNCHANGED << memory_cache, redis_db, shadow, threads >>
    /\ ThreadFrame

\* the server answers again
ServerAnswers ==
    /\ redis_silent
    /\ redis_silent' = FALSE
    /\ UNCHANGED << memory_cache, redis_db, shadow, threads >>
    /\ ThreadFrame

\* the steps that end or continue thread t's call
Step(t) == LGetRead(t) \/ LInvDel(t) \/ Serve(t)

NextThreads ==
    \/ \E t \in Threads, k \in Keys : LGetCheck(t, k)
    \/ \E t \in Threads : LGetRead(t)
    \/ \E t \in Threads, k \in Keys, data \in JsonPayloads : LSet(t, k, data)
    \/ \E t \in Threads, k \in Keys : LInvCheck(t, k)
    \/ \E t \in Threads : LInvDel(t)
    \/ \E t \in Threads : LInvAll(t)
    \/ \E t \in Threads, k \in Keys : RSend(t, "get", k, PyNone)
    \/ \E t \in Threads, k \in Keys, data \in JsonPayloads : RSend(t, "set", k, data)
    \/ \E t \in Threads, k \in Keys \cup {"None"} : RSend(t, "invalidate", k, PyNone)
    \/ \E t \in Threads : Serve(t)
    \/ ServerSilent
    \/ ServerAnswers

SpecThreads == InitThreads /\ [][NextThreads]_vars

(***************************************************************************)
(* The cache keys of two requests.  SpecFP starts from a request a, and    *)
(* each of its actions generates the key of a and of a request b that      *)
(* differs from a in one way.                                              *)
(***************************************************************************)
cacheVars == << config, use_redis, cache_enabled, redis_client, memory_cache,
                redis_db, redis_up, last, shadow, contacted, heap, threads,
                redis_silent, sel >>

InitFP ==
    /\ Constructed([{"A"} -> {[use_redis |-> FALSE, REDIS_URL |-> "unset",
                               ENABLE_CACHE |-> TRUE]}])
    /\ redis_up = TRUE
    /\ \E a \in Requests : fp = [FpIdle EXCEPT !.a = a, !.b = a]

\* generate_cache_key is called for fp.a and for b
Compare(b) ==
    /\ ~fp.done
    /\ fp' = [a |-> fp.a, b |-> b, key_a |-> KeyOf(fp.a), key_b |-> KeyOf(b),
              done |-> TRUE]
    /\ UNCHANGED cacheVars

\* the params of a as a mapping
ParamMap(params) == { params[j] : j \in 1..Len(params) }

\* b has a's params, inserted in another order
ReorderParams ==
    \E p \in ParamDicts :
        /\ p # fp.a.params
        /\ ParamMap(p) = ParamMap(fp.a.params)
        /\ Compare([fp.a EXCEPT !.params = p])

\* b has another model
ChangeModel ==
    \E m \in Models \ {fp.a.model} : Compare([fp.a EXCEPT !.model = m])

\* one message of b has another role
ChangeRole ==
    \E j \in 1..Len(fp.a.messages), r \in Roles :
        /\ r # fp.a.messages[j].role
        /\ Compare([fp.a EXCEPT !.messages[j].role = r])

\* one message of b has another content
ChangeContent ==
    \E j \in 1..Len(fp.a.messages), c \in Contents :
        /\ c # fp.a.messages[j].content
        /\ Compare([fp.a EXCEPT !.messages[j].content = c])

\* one parameter of b has another value
ChangeParamValue ==
    \E j \in 1..Len(fp.a.params), v \in ParamValues :
        /\ v # fp.a.params[j][2]
        /\ Compare([fp.a EXCEPT !.params[j] = << fp.a.params[j][1], v >>])

\* b has two different neighbouring messages of a exchanged
ReorderMessages ==
    \E j \in 1..(Len(fp.a.messages) - 1) :
        /\ fp.a.messages[j] # fp.a.messages[j + 1]
        /\ Compare([fp.a EXCEPT !.messages[j] = fp.a.messages[j + 1],
                                !.messages[j + 1] = fp.a.messages[j]])

\* b has a's messages without the last one
TruncateMessages ==
    /\ fp.a.messages # <<>>
    /\ Compare([fp.a EXCEPT !.messages = SubSeq(@, 1, Len(@) - 1)])

NextFP ==
    \/ ReorderParams
    \/ ChangeModel
    \/ ChangeRole
    \/ ChangeContent
    \/ ChangeParamValue
    \/ ReorderMessages
    \/ TruncateMessages

SpecFP == InitFP /\ [][NextFP]_vars

\* the two requests are the same logical input
SameRequest(a, b) ==
    /\ a.model = b.model
    /\ a.messages = b.messages
    /\ ParamMap(a.params) = ParamMap(b.params)

\* C8: two requests with the same model, the same messages in the same
\* order and the same parameters, inserted in whatever order, get the same
\* cache key.
C8_KeyIgnoresParamOrder ==
    (fp.done /\ SameRequest(fp.a, fp.b)) => fp.key_a = fp.key_b

\* the key was generated for two requests whose params differ in order only
C8_Witness ==
    /\ fp.done
    /\ fp.a.params # fp.b.params
    /\ SameRequest(fp.a, fp.b)
    /\ fp.key_a = fp.key_b

\* C9: two requests that differ in the model, in a message's role or
\* content, in a parameter's value, in the order of the messages or by a
\* last message have different canonical texts and different cache keys.
C9_KeyDistinguishes ==
    (fp.done /\ ~SameRequest(fp.a, fp.b)) =>
        /\ CacheStr(fp.a.model, fp.a.messages, fp.a.params)
              # CacheStr(fp.b.model, fp.b.messages, fp.b.params)
        /\ fp.key_a # fp.key_b

\* the keys were generated for a list of messages and for its proper prefix
C9_Witness ==
    /\ fp.done
    /\ Len(fp.b.messages) < Len(fp.a.messages)
    /\ fp.b.messages = SubSeq(fp.a.messages, 1, Len(fp.b.messages))
    /\ fp.key_a # fp.key_b

(***************************************************************************)
(* Properties of the cache.                                                *)
(***************************************************************************)
Entry(i, k) == shadow[StoreOf(i)][k]

\* C1: with caching enabled and a healthy backend, while the last thing that
\* happened to k's entry is a completed set(k, v), get(k) returns v; and a
\* get that ran without a backend failure in such a state did return v.
C1_RoundTrip ==
    /\ \A i \in Inst, k \in Keys :
          (cache_enabled[i] /\ Healthy(i) /\ Entry(i, k).tag = "set")
             => GetFromCache(i, k).result = Entry(i, k).val
    /\ (last.op = "get" /\ cache_enabled[last.inst] /\ ~last.failed
          /\ Entry(last.inst, last.key).tag = "set")
             => last.result = Entry(last.inst, last.key).val

\* a get on the networked backend returned the payload a set had stored
C1_Witness ==
    /\ last.op = "get"
    /\ use_redis[last.inst]
    /\ Entry(last.inst, last.key).tag = "set"
    /\ last.result \in JsonPayloads
    /\ last.result = Entry(last.inst, last.key).val

\* C2: when caching is disabled, get returns None and set returns False on
\* every key and payload, whatever the backend and its health, and neither
\* reads or writes a backend.
C2_DisabledIsNoOp ==
    /\ \A i \in Inst, k \in Keys :
          ~cache_enabled[i] =>
             /\ GetFromCache(i, k).result = PyNone
             /\ ~GetFromCache(i, k).touched
             /\ \A data \in Payloads :
                   LET o == SaveToCache(i, k, data)
                   IN  /\ o.result = PyFalse
                       /\ ~o.touched
                       /\ o.mem = memory_cache[i]
                       /\ o.db = redis_db
    /\ (last.op \in {"get", "set"} /\ ~cache_enabled[last.inst]) =>
          /\ last.result = (IF last.op = "get" THEN PyNone ELSE PyFalse)
          /\ ~last.touched
          /\ ~last.raised

\* a set on a disabled cache whose networked backend is healthy returned False
C2_Witness ==
    /\ last.op = "set"
    /\ ~cache_enabled[last.inst]
    /\ use_redis[last.inst]
    /\ ~RedisFails(last.inst)
    /\ last.result = PyFalse

\* C3: an instance constructed with use_redis=True and the URL of a server
\* that does not answer uses the Local backend: its set returns True and
\* touches the in-process dict only.
C3_FallsBackToLocal ==
    \A i \in Inst :
        (config[i].use_redis /\ config[i].REDIS_URL = "unreachable") =>
            /\ ~use_redis[i]
            /\ cache_enabled[i] =>
                  \A k \in Keys, data \in Payloads :
                      SaveToCache(i, k, data).result = PyTrue

\* C4: while the last thing that happened to k's entry is a completed
\* invalidate(k), get(k) returns None.
C4_InvalidatedIsAbsent ==
    /\ \A i \in Inst, k \in Keys :
          Entry(i, k).tag = "invalidated" =>
             /\ GetFromCache(i, k).result = PyNone
             /\ ~Present(i, k)
    /\ (last.op = "get" /\ Entry(last.inst, last.key).tag = "invalidated")
          => last.result = PyNone

\* a get returned None for a key whose entry an invalidate(k) had removed
C4_Witness ==
    /\ last.op = "get"
    /\ cache_enabled[last.inst]
    /\ Entry(last.inst, last.key) = Mark("invalidated", PyTrue)
    /\ last.result = PyNone

\* C5: after a completed invalidate() without a key, get returns None for
\* every key that had been set, until it is set again, on either backend.
C5_FlushedIsAbsent ==
    /\ \A i \in Inst, k \in Keys :
          Entry(i, k).tag = "flushed" =>
             /\ GetFromCache(i, k).result = PyNone
             /\ ~Present(i, k)
    /\ (last.op = "get" /\ Entry(last.inst, last.key).tag = "flushed")
          => last.result = PyNone
    /\ (last.op = "invalidate" /\ last.key = "None" /\ last.result = PyTrue)
          => \A k \in Keys : ~Present(last.inst, k) \/ Entry(last.inst, k).tag = "corrupt"

\* a get returned None for a key whose entry an invalidate() had removed
C5_Witness ==
    /\ last.op = "get"
    /\ cache_enabled[last.inst]
    /\ Entry(last.inst, last.key).tag = "flushed"
    /\ Entry(last.inst, last.key).val = PyTrue
    /\ last.result = PyNone

\* C6: a get in which the backend read fails (the command raises, or the
\* record is not JSON) returns None, lets no exception out, and leaves the
\* stores as they were.
C6_ReadFailureIsMiss ==
    /\ \A i \in Inst, k \in Keys :
          LET o == GetFromCache(i, k)
          IN  /\ o.failed => (o.result = PyNone /\ ~o.raised)
              /\ o.mem = memory_cache[i]
              /\ o.db = redis_db
    /\ (last.op = "get" /\ last.failed) => (last.result = PyNone /\ ~last.raised)

\* a get found a record that is not JSON on the healthy server and returned None
C6_Witness ==
    /\ last.op = "get"
    /\ last.failed
    /\ ~RedisFails(last.inst)
    /\ redis_db[last.key].data = << "{" >>
    /\ last.result = PyNone

C10_InvalidateIdempotent ==
    /\ \A i \in Inst, k \in Keys :
          (cache_enabled[i] /\ Healthy(i) /\ ~Present(i, k)) =>
             LET o == InvalidateCache(i, k)
             IN  /\ o.result = PyTrue
                 /\ o.mem = memory_cache[i]
                 /\ o.db = redis_db
    /\ \A i \in Inst, k \in Keys :
          (last.op = "invalidate" /\ last.inst = i /\ last.key = k
              /\ last.result = PyTrue /\ Entry(i, k).tag = "invalidated")
             => ~Present(i, k)
    /\ (last.op = "invalidate" /\ last.key \in Keys /\ cache_enabled[last.inst]
          /\ ~last.failed) => last.result = PyTrue

\* an invalidate(k) that found no entry under k returned True
C10_Witness ==
    /\ last.op = "invalidate"
    /\ last.key \in Keys
    /\ ~use_redis[last.inst]
    /\ Entry(last.inst, last.key) = Mark("invalidated", PyFalse)
    /\ last.result = PyTrue

(***************************************************************************)
(* Properties of get_cache_stats and of the backend chosen by __init__.   *)
(***************************************************************************)

\* C16: stats never fails: it returns a record with the enabled flag, the
\* backend kind and the TTL, and a record returned after backend
\* introspection raised carries a note of the error in its backend details,
\* that is, a key besides those three.
C16_StatsNotesError ==
    last.op = "stats" =>
       /\ ~last.raised
       /\ last.result.t = "stats"
       /\ BaseStats \subseteq last.result.v[1].keys
       /\ (last.failed => last.result.v[1].keys \ BaseStats # {})

\* C11: the backend chosen by the constructor is the backend in every later
\* state, whatever calls were made and however they ended.
C11_BackendFixed ==
    \A i \in Inst :
       /\ use_redis[i] = Construct(config[i]).use_redis
       /\ redis_client[i] = Construct(config[i]).redis_client

\* a call failed on the Redis backend and the instance is still on Redis
C11_Witness ==
    /\ last.op \in {"get", "set", "invalidate", "stats"}
    /\ last.failed
    /\ RedisFails(last.inst)
    /\ use_redis[last.inst]

\* C12: an instance constructed with use_redis false, or with REDIS_URL
\* unset, is on the Local backend, has no Redis client, and neither its
\* construction nor any later call contacted Redis.
C12_LocalWithoutContact ==
    \A i \in Inst :
       (~config[i].use_redis \/ config[i].REDIS_URL = "unset") =>
          /\ ~use_redis[i]
          /\ redis_client[i] = "none"
          /\ ~contacted[i]

\* an instance told not to use Redis while REDIS_URL names a live server
\* stored an entry in its dict
C12_Witness ==
    /\ ~config[last.inst].use_redis
    /\ config[last.inst].REDIS_URL = "reachable"
    /\ last.op = "set"
    /\ last.result = PyTrue
    /\ memory_cache[last.inst][last.key].present
    /\ ~contacted[last.inst]

(***************************************************************************)
(* Expiry.  The age of a mark "set" is the number of seconds since the     *)
(* set completed.                                                          *)
(***************************************************************************)

\* C13: on the Redis backend an entry stored by set(k, v) is returned by
\* get(k) only while fewer than CacheTtl seconds have passed since the set:
\* until then the record is there with the rest of its time to live and a
\* healthy get returns v, and once the time has passed (no newer set) the
\* record is gone and get returns None.
C13_RedisExpires ==
    /\ \A i \in Inst, k \in Keys :
          (use_redis[i] /\ Entry(i, k).tag = "set") =>
             /\ Entry(i, k).age < CacheTtl
             /\ redis_db[k].present
             /\ redis_db[k].ttl = CacheTtl - Entry(i, k).age
             /\ (cache_enabled[i] /\ Healthy(i))
                   => GetFromCache(i, k).result = Entry(i, k).val
    /\ \A i \in Inst, k \in Keys :
          (use_redis[i] /\ Entry(i, k).tag = "expired") =>
             /\ ~redis_db[k].present
             /\ GetFromCache(i, k).result = PyNone

\* a get on the Redis backend found nothing under a key whose entry expired
C13_Witness ==
    /\ last.op = "get"
    /\ use_redis[last.inst]
    /\ cache_enabled[last.inst]
    /\ ~last.failed
    /\ Entry(last.inst, last.key).tag = "expired"
    /\ last.result = PyNone

\* C14: on the Local backend time removes no entry: while the last thing
\* that happened to k is a completed set(k, v), however long ago, get(k)
\* returns v.
C14_LocalNeverExpires ==
    /\ \A i \in Inst, k \in Keys :
          (~use_redis[i] /\ cache_enabled[i] /\ Entry(i, k).tag = "set")
             => /\ memory_cache[i][k] = [present |-> TRUE, val |-> Entry(i, k).val]
                /\ GetFromCache(i, k).result = Entry(i, k).val
    /\ (last.op = "get" /\ ~use_redis[last.inst] /\ cache_enabled[last.inst]
           /\ Entry(last.inst, last.key).tag = "set")
          => last.result = Entry(last.inst, last.key).val

\* a get on the Local backend returned an entry stored more than CacheTtl
\* seconds before
C14_Witness ==
    /\ last.op = "get"
    /\ ~use_redis[last.inst]
    /\ Entry(last.inst, last.key).tag = "set"
    /\ Entry(last.inst, last.key).age > CacheTtl
    /\ last.result = Entry(last.inst, last.key).val

(***************************************************************************)
(* Two instances (SpecTwo).                                                *)
(***************************************************************************)

\* C19: after a completed invalidate() on an instance that uses the Redis
\* server, every key is absent for every other instance on that server and
\* its get returns None; and a Local instance's dict holds exactly the
\* entries its own set calls stored and its own invalidate calls did not
\* remove, whatever invalidate() calls the other instance made.
C19_FlushScope ==
    /\ \A i \in Inst :
          (last.op = "invalidate" /\ last.key = "None" /\ last.inst = i
              /\ last.result = PyTrue /\ use_redis[i]) =>
             \A j \in Inst \ {i} :
                (use_redis[j] /\ redis_client[j] = redis_client[i]) =>
                   \A k \in Keys :
                      /\ ~Present(j, k)
                      /\ GetFromCache(j, k).result = PyNone
    /\ \A j \in Inst, k \in Keys :
          ~use_redis[j] =>
             /\ memory_cache[j][k].present <=> shadow[j][k].tag = "set"
             /\ shadow[j][k].tag = "set" =>
                   /\ shadow[j][k].by = j
                   /\ GetFromCache(j, k).result = shadow[j][k].val

\* an invalidate() of one instance on the shared server removed an entry that
\* the other instance had stored
C19_Witness ==
    /\ last.op = "invalidate"
    /\ last.key = "None"
    /\ last.result = PyTrue
    /\ \A i \in Inst : use_redis[i]
    /\ \E k \in Keys :
          /\ shadow["reachable"][k].tag = "flushed"
          /\ shadow["reachable"][k].val = PyTrue
          /\ shadow["reachable"][k].by \notin {"none", last.inst}

(***************************************************************************)
(* The caller's objects (SpecAlias).                                       *)
(***************************************************************************)

\* C20: set stores a snapshot of the payload on both backends: while the
\* last thing that happened to k is a completed set(k, v), get(k) returns
\* the content v had when the set was called, whatever the caller did to v
\* since; and while the last call is a get(k) that returned a payload, the
\* next get(k) returns that payload, whatever the caller did to the object
\* it was given.
C20_SnapshotStored ==
    /\ \A i \in Inst, k \in Keys :
          (cache_enabled[i] /\ Healthy(i) /\ Entry(i, k).tag = "set")
             => GetFromCache(i, k).result = Entry(i, k).val
    /\ (last.op = "get" /\ last.result # PyNone /\ Healthy(last.inst))
          => GetFromCache(last.inst, last.key).result = last.result

\* the part of C20 that holds: on the Redis backend the record is the text
\* of the payload at the time of the set, and a get returns a new object
C20_RedisSnapshot ==
    /\ \A i \in Inst, k \in Keys :
          (use_redis[i] /\ Healthy(i) /\ Entry(i, k).tag = "set")
             => GetFromCache(i, k).result = Entry(i, k).val
    /\ (last.op = "get" /\ last.result # PyNone /\ use_redis[last.inst])
          => GetFromCache(last.inst, last.key).result = last.result

(***************************************************************************)
(* Calls from several threads (SpecThreads).                               *)
(***************************************************************************)

\* C15: every call returns even if the server never answers: whenever a
\* thread is inside a call, a step that continues or ends that call can be
\* taken, the server's silence notwithstanding.
C15_CallsReturn ==
    \A t \in Threads : threads[t].pc # "idle" => ENABLED Step(t)

\* C17: when the last calls of two threads are set(k, v1) and set(k, v2) of
\* one key and both returned True, the store holds under k exactly v1 or
\* exactly v2: the payload of the thread whose write was applied last.
C17_LastWriteWins ==
    \A t1 \in Threads, t2 \in Threads, k \in Keys :
       ( /\ t1 # t2
         /\ threads[t1].pc = "idle" /\ threads[t2].pc = "idle"
         /\ threads[t1].op = "set" /\ threads[t2].op = "set"
         /\ threads[t1].key = k /\ threads[t2].key = k
         /\ threads[t1].result = PyTrue /\ threads[t2].result = PyTrue )
       => /\ Present(Cm, k)
          /\ GetFromCache(Cm, k).result \in {threads[t1].arg, threads[t2].arg}
          /\ Entry(Cm, k).tag = "set"
          /\ Entry(Cm, k).by \in {t1, t2}
          /\ GetFromCache(Cm, k).result = threads[Entry(Cm, k).by].arg

\* two set calls of one key with different payloads ran at the same time on
\* the Redis backend, and the one sent first was applied last
C17_Witness ==
    /\ use_redis[Cm]
    /\ \A t \in Threads :
          /\ threads[t].pc = "idle"
          /\ threads[t].op = "set"
          /\ threads[t].key = "k1"
          /\ threads[t].result = PyTrue
          /\ threads[t].overlap
          /\ threads[t].calls = 1
    /\ threads["t1"].arg # threads["t2"].arg
    /\ GetFromCache(Cm, "k1").result = threads["t1"].arg

\* C18: on the Local backend no call of any thread reports failure: every
\* set and every invalidate that has returned, returned True.  (A get
\* reports nothing but a payload or None, so it is not constrained here.)
C18_LocalCallsSucceed ==
    \A t \in Threads :
       ( /\ ~use_redis[Cm]
         /\ threads[t].pc = "idle"
         /\ threads[t].calls > 0
         /\ threads[t].op \in {"set", "invalidate"} )
       => threads[t].result = PyTrue

(***************************************************************************)
(* Frames.                                                                 *)
(***************************************************************************)

\* C21: a get changes no store; a set(k, v) and an invalidate(k) change no
\* entry but k's; and right after a get, set or invalidate of k, a get of
\* any other key returns what it would have returned just before the call
\* (after a get, that holds for k too).
C21_SingleKeyFrame ==
    /\ \A i \in Inst, k \in Keys :
          LET g == GetFromCache(i, k)
          IN  g.mem = memory_cache[i] /\ g.db = redis_db
    /\ \A i \in Inst, k \in Keys, kk \in Keys :
          kk # k =>
             /\ \A data \in Payloads :
                   LET s == SaveToCache(i, k, data)
                   IN  s.mem[kk] = memory_cache[i][kk] /\ s.db[kk] = redis_db[kk]
             /\ LET d == InvalidateCache(i, k)
                IN  d.mem[kk] = memory_cache[i][kk] /\ d.db[kk] = redis_db[kk]
    /\ (last.fresh /\ last.op \in {"get", "set", "invalidate"} /\ last.key \in Keys)
          => \A kk \in Keys :
                (kk # last.key \/ last.op = "get")
                   => GetFromCache(last.inst, kk).result = last.seen[kk]

\* an invalidate(k1) removed k1's entry and the entry of k2 is returned as
\* before
C21_Witness ==
    /\ last.fresh
    /\ last.op = "invalidate"
    /\ last.key = "k1"
    /\ last.result = PyTrue
    /\ last.seen["k1"] \in JsonPayloads
    /\ GetFromCache(last.inst, "k1").result = PyNone
    /\ last.seen["k2"] \in JsonPayloads
    /\ GetFromCache(last.inst, "k2").result = last.seen["k2"]

\* C22: on an instance with caching disabled, invalidate, with or without a
\* key, returns False, sends nothing and leaves its dict and the server's
\* records as they are; every such call that was made returned False; the
\* dict of such an instance is empty; and what an enabled instance stored is
\* there, and returned to it, until an enabled instance's call removes it.
C22_DisabledInvalidateIsNoOp ==
    /\ \A i \in Inst :
          ~cache_enabled[i] =>
             /\ \A k \in Keys \cup {"None"} :
                   LET o == InvalidateCache(i, k)
                   IN  /\ o.result = PyFalse
                       /\ ~o.touched
                       /\ o.mem = memory_cache[i]
                       /\ o.db = redis_db
             /\ memory_cache[i] = EmptyDict
    /\ (last.op = "invalidate" /\ ~cache_enabled[last.inst])
          => (last.result = PyFalse /\ ~last.touched)
    /\ \A i \in Inst, k \in Keys :
          (cache_enabled[i] /\ Entry(i, k).tag = "set")
             => /\ Present(i, k)
                /\ GetFromCache(i, k).result = Entry(i, k).val

\* the disabled instance, built for the Redis server, was told to
\* invalidate everything, returned False, and the entry the enabled
\* instance had stored there is still returned
C22_Witness ==
    /\ last.op = "invalidate"
    /\ last.key = "None"
    /\ last.inst = "A"
    /\ ~cache_enabled["A"]
    /\ use_redis["A"] /\ use_redis["B"]
    /\ last.result = PyFalse
    /\ shadow["reachable"]["k1"].tag = "set"
    /\ shadow["reachable"]["k1"].by = "B"
    /\ GetFromCache("B", "k1").result = shadow["reachable"]["k1"].val

(***************************************************************************)
(* APIManager.select_available_model.  A model name is the sequence of its *)
(* characters; a key is unset (None), empty or set.                        *)
(***************************************************************************)

\* how many models a caller prefers
MaxPreferred == 2

ApiKeyValues == {"unset", "empty", "set"}

\* the truth value of an api key: None and "" are false
KeyTruthy(v) == v = "set"

ModelNames ==
    { << "g", "p", "t", "-", "4" >>,
      << "c", "l", "a", "u", "d", "e", "-", "3" >>,
      << "g", "e", "m", "i", "n", "i", "-", "1" >>,
      << "d", "e", "e", "p", "s", "e", "e", "k", "-", "1" >>,
      << "l", "l", "a", "m", "a", "3" >>,
      << "g", "p", "t", "4" >> }

PreferredLists == UNION {[1..n -> ModelNames] : n \in 0..MaxPreferred}

\* str.startswith
StartsWith(model, prefix) == HasPrefix(model, prefix)

\* the body of the for loop: does this iteration return model
Returned(keys, model) ==
    IF StartsWith(model, << "g", "p", "t", "-" >>) /\ KeyTruthy(keys["openai"])
    THEN TRUE
    ELSE IF StartsWith(model, << "c", "l", "a", "u", "d", "e", "-" >>)
            /\ KeyTruthy(keys["anthropic"])
    THEN TRUE
    ELSE IF StartsWith(model, << "g", "e", "m", "i", "n", "i", "-" >>)
            /\ KeyTruthy(keys["gemini"])
    THEN TRUE
    ELSE IF StartsWith(model, << "d", "e", "e", "p", "s", "e", "e", "k", "-" >>)
            /\ KeyTruthy(keys["deepseek"])
    THEN TRUE
    ELSE IF KeyTruthy(keys["ollama"])
    THEN TRUE
    ELSE FALSE

\* the for loop over preferred_models: [found, model]
RECURSIVE Loop(_, _)
Loop(keys, models) ==
    IF models = <<>> THEN [found |-> FALSE, model |-> <<>>]
    ELSE IF Returned(keys, Head(models)) THEN [found |-> TRUE, model |-> Head(models)]
    ELSE Loop(keys, Tail(models))

\* APIManager.select_available_model(preferred_models): [exc, model];
\* preferred_models[0] of an empty list is an IndexError
SelectAvailableModel(keys, preferred) ==
    LET r == Loop(keys, preferred)
    IN  IF r.found THEN [exc |-> FALSE, model |-> r.model]
        ELSE IF preferred = <<>> THEN [exc |-> TRUE, model |-> <<>>]
        ELSE [exc |-> FALSE, model |-> preferred[1]]

\* what an APIManager does not touch
managerFrame ==
    << config, use_redis, cache_enabled, redis_client, memory_cache, redis_db,
       redis_up, last, shadow, contacted, heap, threads, redis_silent, fp >>

\* APIManager(): the keys are read from the environment
NewManager(keys) ==
    /\ sel' = [NoManager EXCEPT !.made = TRUE, !.api_keys = keys]
    /\ UNCHANGED managerFrame

\* select_available_model(preferred) is called
Select(preferred) ==
    /\ sel.made
    /\ sel' = [sel EXCEPT !.called = TRUE, !.preferred = preferred,
                          !.result = SelectAvailableModel(sel.api_keys, preferred)]
    /\ UNCHANGED managerFrame

InitSel ==
    /\ Constructed([{"A"} -> {[use_redis |-> FALSE, REDIS_URL |-> "unset",
                               ENABLE_CACHE |-> TRUE]}])
    /\ redis_up = TRUE
    /\ fp = FpIdle

NextSel ==
    \/ \E keys \in [Providers -> ApiKeyValues] : NewManager(keys)
    \/ \E preferred \in PreferredLists : Select(preferred)

SpecSel == InitSel /\ [][NextSel]_vars

\* the provider the name of a model stands for
ProviderOf(model) ==
    IF StartsWith(model, << "g", "p", "t", "-" >>) THEN "openai"
    ELSE IF StartsWith(model, << "c", "l", "a", "u", "d", "e", "-" >>) THEN "anthropic"
    ELSE IF StartsWith(model, << "g", "e", "m", "i", "n", "i", "-" >>) THEN "gemini"
    ELSE IF StartsWith(model, << "d", "e", "e", "p", "s", "e", "e", "k", "-" >>)
    THEN "deepseek"
    ELSE "ollama"

\* C23: select_available_model returns the first model of the list whose
\* own provider has a key configured, and the first model of the list when
\* no model's provider has one (the list not being empty).
C23_SelectsByOwnProvider ==
    (sel.called /\ sel.preferred # <<>>) =>
       LET ok == {n \in 1..Len(sel.preferred) :
                     KeyTruthy(sel.api_keys[ProviderOf(sel.preferred[n])])}
           first == CHOOSE n \in ok : \A m \in ok : n <= m
       IN  /\ ~sel.result.exc
           /\ sel.result.model = IF ok # {} THEN sel.preferred[first]
                                 ELSE sel.preferred[1]

\* what the code does: it returns the first model of the list whose own
\* provider has a key or, when the ollama key is set, the first model
\* whatever its name
C23_SelectsAnyWithOllama ==
    (sel.called /\ sel.preferred # <<>>) =>
       LET ok == {n \in 1..Len(sel.preferred) :
                     KeyTruthy(sel.api_keys[ProviderOf(sel.preferred[n])])}
           first == CHOOSE n \in ok : \A m \in ok : n <= m
       IN  /\ ~sel.result.exc
           /\ sel.result.model = IF KeyTruthy(sel.api_keys["ollama"]) \/ ok = {}
                                 THEN sel.preferred[1]
                                 ELSE sel.preferred[first]

====
